---------------------------- MODULE Spec2Model ----------------------------
(***************************************************************************)
(* A model of the InnovAIte idea generator:                                *)
(*   - the gateway, supabase/functions/generate-idea/index.ts: one request *)
(*     handler (preflight, body validation, one call to the completion     *)
(*     endpoint, recovery of JSON from the model's text);                  *)
(*   - the client controller, the Index page component: handleGenerate     *)
(*     and the two pieces of React state it writes, ideas and isLoading.   *)
(* GatewaySpec runs one request through the handler; ClientSpec runs up to *)
(* MaxInvocations calls of handleGenerate, overlapping in every order.     *)
(*                                                                         *)
(* Text is a sequence of tokens. A token stands for a piece of the model's *)
(* reply that the handler's regular expressions and JSON.parse tell apart: *)
(*   "{" "}"  the braces                                                   *)
(*   "I"      the member  "ideas": [...]      (an array)                   *)
(*   "S"      the member  "ideas": "..."      (truthy, not an array)       *)
(*   "E"      the member  "error": "could not produce json"                *)
(*   "v"      a JSON value that is not an object (a number, [], null)      *)
(*   "p"      prose                                                        *)
(*   "F"      a code fence, three backticks                                *)
(*   "J"      the word json                                                *)
(*   "n"      a line break (whitespace)                                    *)
(* Bodies are delivered whole once a response's headers have arrived: a    *)
(* stream that breaks in the middle of a body is not modelled.             *)
(***************************************************************************)
EXTENDS Integers, Sequences, FiniteSets, TLC

\* Longest model reply, in tokens.
MaxLen == 4
\* Calls of handleGenerate in one behaviour of the client.
MaxInvocations == 2

VARIABLES
    \* ---- gateway: one run of the serve handler
    gpc,              \* where the handler is: idle, fetching, done
    method,           \* req.method
    bodyRead,         \* req.json() has been called
    reqBody,          \* what req.json() yields, with the five required fields
    calls,            \* calls made to the completion endpoint
    apiStatus,        \* response.status of the completion endpoint (0: none)
    errorText,        \* the provider's error body, read at line 131
    generatedContent, \* data.choices[0].message.content
    recovery,         \* which step produced parsedData: none, direct, extract
    response,         \* the Response returned
    \* ---- client: the Index component
    ideas,            \* useState<Idea[]>([])
    isLoading,        \* useState(false)
    cpc,              \* per invocation: idle, fetching, reading, done
    respOk,           \* per invocation: response.ok of its resolved fetch
    outcome,          \* per invocation: none, success, failure
    delivered,        \* per invocation: the ideas array its response carried
    toast,            \* per invocation: the notification it raised
    hist              \* the starts and completions so far, in order

gvars == <<gpc, method, bodyRead, reqBody, calls, apiStatus, errorText,
           generatedContent, recovery, response>>
cvars == <<ideas, isLoading, cpc, respOk, outcome, delivered, toast, hist>>
vars == <<gvars, cvars>>

----------------------------------------------------------------------------
(* Text *)

Alphabet == {"{", "}", "I", "S", "E", "v", "p", "F", "J", "n"}

Texts == UNION {[1..k -> Alphabet] : k \in 0..MaxLen}

\* s from position i on.
Drop(s, i) == IF i > Len(s) THEN <<>> ELSE SubSeq(s, i, Len(s))

\* String.prototype.trim: whitespace off both ends.
RECURSIVE TrimLeft(_)
TrimLeft(s) ==
    IF s # <<>> /\ Head(s) = "n" THEN TrimLeft(Tail(s)) ELSE s

RECURSIVE TrimRight(_)
TrimRight(s) ==
    IF s # <<>> /\ s[Len(s)] = "n" THEN TrimRight(SubSeq(s, 1, Len(s) - 1)) ELSE s

Trim(s) == TrimRight(TrimLeft(s))

\* .replace(/```json\n?/g, ''): every fence followed by json, and one line
\* break after it if there is one, scanning left to right.
RECURSIVE RemoveFenceJson(_)
RemoveFenceJson(s) ==
    IF s = <<>> THEN <<>>
    ELSE IF Len(s) >= 2 /\ s[1] = "F" /\ s[2] = "J"
         THEN IF Len(s) >= 3 /\ s[3] = "n"
              THEN RemoveFenceJson(Drop(s, 4))
              ELSE RemoveFenceJson(Drop(s, 3))
         ELSE <<Head(s)>> \o RemoveFenceJson(Tail(s))

\* .replace(/```\n?/g, ''): every fence, and one line break after it.
RECURSIVE RemoveFence(_)
RemoveFence(s) ==
    IF s = <<>> THEN <<>>
    ELSE IF s[1] = "F"
         THEN IF Len(s) >= 2 /\ s[2] = "n"
              THEN RemoveFence(Drop(s, 3))
              ELSE RemoveFence(Drop(s, 2))
         ELSE <<Head(s)>> \o RemoveFence(Tail(s))

CleanContent(s) == Trim(RemoveFence(RemoveFenceJson(s)))

----------------------------------------------------------------------------
(* JSON values and JSON.parse *)

\* A parsed value: an object with its ideas and error members, or a value
\* that is no object. NoValue is the absence of a value.
NoValue == [kind |-> "none", ideas |-> "absent", err |-> FALSE]
ScalarValue == [kind |-> "scalar", ideas |-> "absent", err |-> FALSE]

\* The ideas member of an object whose members are m, in order: the last
\* one wins, as in JSON.parse.
RECURSIVE IdeasOf(_)
IdeasOf(m) ==
    IF m = <<>> THEN "absent"
    ELSE LET last == m[Len(m)]
         IN  IF last = "I" THEN "array"
             ELSE IF last = "S" THEN "string"
             ELSE IdeasOf(SubSeq(m, 1, Len(m) - 1))

\* JSON.parse: whitespace, one value, whitespace. An object is an opening
\* brace, members and whitespace, a closing brace.
JSONparse(s) ==
    LET t == Trim(s)
    IN  IF t = <<"v">>
        THEN [ok |-> TRUE, value |-> ScalarValue]
        ELSE IF /\ Len(t) >= 2
                /\ t[1] = "{"
                /\ t[Len(t)] = "}"
                /\ \A i \in 2..(Len(t) - 1) : t[i] \in {"I", "S", "E", "n"}
        THEN [ok |-> TRUE,
              value |-> [kind |-> "object",
                         ideas |-> IdeasOf(SubSeq(t, 2, Len(t) - 1)),
                         err |-> \E i \in 2..(Len(t) - 1) : t[i] = "E"]]
        ELSE [ok |-> FALSE, value |-> NoValue]

\* The greedy end of /\{[\s\S]*\}/ for a match starting at i: the last
\* closing brace after i, 0 if there is none.
RECURSIVE GreedyEnd(_, _, _)
GreedyEnd(s, i, j) ==
    IF j <= i THEN 0
    ELSE IF s[j] = "}" THEN j
    ELSE GreedyEnd(s, i, j - 1)

\* A mutant of JsonMatchFrom's end: the first closing brace after i.
RECURSIVE LazyEnd(_, _, _)
LazyEnd(s, i, j) ==
    IF j > Len(s) THEN 0
    ELSE IF s[j] = "}" THEN j
    ELSE LazyEnd(s, i, j + 1)

\* generatedContent.match(/\{[\s\S]*\}/) tried at start positions i, i+1, ...
RECURSIVE JsonMatchFrom(_, _)
JsonMatchFrom(s, i) ==
    IF i > Len(s) THEN [found |-> FALSE, text |-> <<>>]
    ELSE IF s[i] = "{" /\ GreedyEnd(s, i, Len(s)) # 0
         THEN [found |-> TRUE, text |-> SubSeq(s, i, GreedyEnd(s, i, Len(s)))]
         ELSE JsonMatchFrom(s, i + 1)

RECURSIVE LazyMatchFrom(_, _)
LazyMatchFrom(s, i) ==
    IF i > Len(s) THEN [found |-> FALSE, text |-> <<>>]
    ELSE IF s[i] = "{" /\ LazyEnd(s, i, i + 1) # 0
         THEN [found |-> TRUE, text |-> SubSeq(s, i, LazyEnd(s, i, i + 1))]
         ELSE LazyMatchFrom(s, i + 1)

\* A mutant of JsonMatch: a lazy quantifier, /\{[\s\S]*?\}/.
JsonMatchLazy(s) == LazyMatchFrom(s, 1)

JsonMatch(s) == JsonMatchFrom(s, 1)

----------------------------------------------------------------------------
(* The gateway: supabase/functions/generate-idea/index.ts *)

corsHeaders == {"Access-Control-Allow-Origin", "Access-Control-Allow-Headers"}

JsonHeaders == corsHeaders \cup {"Content-Type"}

MissingFieldsMsg ==
    "Missing required fields: domain, audience, difficulty, time_available_days, mode"
FailedToParseMsg == "Failed to parse AI response. Please try again."
NoValidJsonMsg == "AI did not return valid JSON. Please try again."

NoResponse == [status |-> 0, headers |-> {},
               body |-> [kind |-> "none", error |-> "", value |-> NoValue]]

ErrorBody(msg) == [kind |-> "error", error |-> msg, value |-> NoValue]

\* new Response(null, { headers: corsHeaders }): the status defaults to 200.
PreflightResponse ==
    [status |-> 200, headers |-> corsHeaders,
     body |-> [kind |-> "empty", error |-> "", value |-> NoValue]]

MissingFieldsResponse ==
    [status |-> 400, headers |-> JsonHeaders, body |-> ErrorBody(MissingFieldsMsg)]

\* A mutant of ApiErrorResponse: the provider's error body is relayed.
ApiErrorResponseLeaking(status, text) ==
    [status |-> 500, headers |-> JsonHeaders,
     body |-> ErrorBody("OpenAI API error: " \o ToString(status) \o " " \o text)]

ApiErrorResponse(status, text) ==
    [status |-> 500, headers |-> JsonHeaders,
     body |-> ErrorBody("OpenAI API error: " \o ToString(status))]

ParseFailedResponse ==
    [status |-> 500, headers |-> JsonHeaders, body |-> ErrorBody(FailedToParseMsg)]

NoJsonResponse ==
    [status |-> 500, headers |-> JsonHeaders, body |-> ErrorBody(NoValidJsonMsg)]

\* new Response(JSON.stringify(parsedData), { headers }): status 200.
SuccessResponse(value) ==
    [status |-> 200, headers |-> JsonHeaders,
     body |-> [kind |-> "json", error |-> "", value |-> value]]

\* A mutant of CatchResponse: the headers of the catch block lack corsHeaders.
CatchResponseNoCors(msg) ==
    [status |-> 500, headers |-> {"Content-Type"}, body |-> ErrorBody(msg)]

\* The top-level catch: error.message.
CatchResponse(msg) ==
    [status |-> 500, headers |-> JsonHeaders, body |-> ErrorBody(msg)]

Required == {"domain", "audience", "difficulty", "time_available_days", "mode"}

\* A field of the body: absent (undefined), present and falsy ("", 0, null,
\* false), or present and truthy.
FieldStates == {"absent", "falsy", "truthy"}

NoFields == [k \in Required |-> "absent"]

\* What req.json() can yield: a rejection (the body is not JSON), null, or a
\* value whose properties can be read. A number, a string or an array has
\* none of the five properties: it is the object with all five absent.
Bodies ==
    {[kind |-> "unparsable", fields |-> NoFields], [kind |-> "null", fields |-> NoFields]}
    \cup {[kind |-> "object", fields |-> f] : f \in [Required -> FieldStates]}

\* !domain || !audience || !difficulty || !time_available_days || !mode
MissingRequired(f) == \E k \in Required : f[k] # "truthy"

\* req.method of a request that is no preflight.
Methods == {"POST", "PUT"}

Statuses == {200, 401, 429, 500}
ErrorTexts == {"", "quota exceeded", "invalid api key"}

\* response.ok
Ok(status) == status >= 200 /\ status <= 299

\* The regex fallback of lines 170-191, on the text handed to it.
Extract(content) ==
    LET m == JsonMatch(content)
    IN  IF m.found
        THEN IF JSONparse(m.text).ok
             THEN [response |-> SuccessResponse(JSONparse(m.text).value),
                   recovery |-> "extract"]
             ELSE [response |-> ParseFailedResponse, recovery |-> "extract"]
        ELSE [response |-> NoJsonResponse, recovery |-> "extract"]

\* A mutant of Coerce: the fallback searches cleanContent, not the reply.
CoerceFromClean(content) ==
    LET p == JSONparse(CleanContent(content))
    IN  IF p.ok /\ p.value.kind = "object" /\ p.value.ideas = "array"
        THEN [response |-> SuccessResponse(p.value), recovery |-> "direct"]
        ELSE Extract(CleanContent(content))

\* Lines 148-199: parse cleanContent; without an ideas array (a falsy or
\* missing ideas, an ideas that is no array, a value with no properties)
\* the try block throws and the catch block falls back to the regex on
\* generatedContent.
Coerce(content) ==
    LET p == JSONparse(CleanContent(content))
    IN  IF p.ok /\ p.value.kind = "object" /\ p.value.ideas = "array"
        THEN [response |-> SuccessResponse(p.value), recovery |-> "direct"]
        ELSE Extract(content)

\* The state of the client, which the gateway never touches.
ClientIdle ==
    /\ ideas = <<>>
    /\ isLoading = FALSE
    /\ cpc = [i \in 1..MaxInvocations |-> "idle"]
    /\ respOk = [i \in 1..MaxInvocations |-> FALSE]
    /\ outcome = [i \in 1..MaxInvocations |-> "none"]
    /\ delivered = [i \in 1..MaxInvocations |-> <<>>]
    /\ toast = [i \in 1..MaxInvocations |-> [kind |-> "none", message |-> ""]]
    /\ hist = <<>>

GatewayInit ==
    /\ gpc = "idle"
    /\ method = ""
    /\ bodyRead = FALSE
    /\ reqBody = [kind |-> "none", fields |-> NoFields]
    /\ calls = 0
    /\ apiStatus = 0
    /\ errorText = ""
    /\ generatedContent = <<>>
    /\ recovery = "none"
    /\ response = NoResponse
    /\ ClientIdle

\* Lines 60-62: the preflight returns before the body is read.
Preflight ==
    /\ gpc = "idle"
    /\ method' = "OPTIONS"
    /\ response' = PreflightResponse
    /\ gpc' = "done"
    /\ UNCHANGED <<bodyRead, reqBody, calls, apiStatus, errorText,
                   generatedContent, recovery>>
    /\ UNCHANGED cvars

\* Line 74: req.json() rejects, or yields null and the destructuring
\* throws; the top-level catch answers.
BodyThrows ==
    /\ gpc = "idle"
    /\ \E m \in Methods, b \in {x \in Bodies : x.kind \in {"unparsable", "null"}} :
          /\ method' = m
          /\ reqBody' = b
          /\ response' = CatchResponse(IF b.kind = "unparsable"
                                       THEN "Unexpected end of JSON input"
                                       ELSE "Cannot destructure property 'domain'")
    /\ bodyRead' = TRUE
    /\ gpc' = "done"
    /\ UNCHANGED <<calls, apiStatus, errorText, generatedContent, recovery>>
    /\ UNCHANGED cvars

\* Lines 85-93: a required field is falsy.
ValidationFails ==
    /\ gpc = "idle"
    /\ \E m \in Methods, b \in {x \in Bodies : x.kind = "object"} :
          /\ MissingRequired(b.fields)
          /\ method' = m
          /\ reqBody' = b
    /\ bodyRead' = TRUE
    /\ response' = MissingFieldsResponse
    /\ gpc' = "done"
    /\ UNCHANGED <<calls, apiStatus, errorText, generatedContent, recovery>>
    /\ UNCHANGED cvars

\* Lines 95-128: the prompt is built and the completion endpoint is called.
CallModel ==
    /\ gpc = "idle"
    /\ \E m \in Methods, b \in {x \in Bodies : x.kind = "object"} :
          /\ ~MissingRequired(b.fields)
          /\ method' = m
          /\ reqBody' = b
    /\ bodyRead' = TRUE
    /\ calls' = calls + 1
    /\ gpc' = "fetching"
    /\ UNCHANGED <<apiStatus, errorText, generatedContent, recovery, response>>
    /\ UNCHANGED cvars

\* Line 114: fetch rejects (no connection); the top-level catch answers.
FetchRejects ==
    /\ gpc = "fetching"
    /\ response' = CatchResponse("error sending request")
    /\ gpc' = "done"
    /\ UNCHANGED <<method, bodyRead, reqBody, calls, apiStatus, errorText,
                   generatedContent, recovery>>
    /\ UNCHANGED cvars

\* Lines 130-140: a status outside 200..299.
UpstreamError ==
    /\ gpc = "fetching"
    /\ \E st \in {s \in Statuses : ~Ok(s)}, txt \in ErrorTexts :
          /\ apiStatus' = st
          /\ errorText' = txt
          /\ response' = ApiErrorResponse(st, txt)
    /\ gpc' = "done"
    /\ UNCHANGED <<method, bodyRead, reqBody, calls, generatedContent, recovery>>
    /\ UNCHANGED cvars

\* Lines 142-145: response.json() rejects, data has no choices[0].message,
\* or its content is null and .substring throws; the top-level catch answers.
UpstreamMalformed ==
    /\ gpc = "fetching"
    /\ \E st \in {s \in Statuses : Ok(s)},
          msg \in {"Unexpected token", "Cannot read properties of undefined",
                   "Cannot read properties of null"} :
          /\ apiStatus' = st
          /\ response' = CatchResponse(msg)
    /\ gpc' = "done"
    /\ UNCHANGED <<method, bodyRead, reqBody, calls, errorText, generatedContent,
                   recovery>>
    /\ UNCHANGED cvars

\* Lines 142-199: the model's text arrives and is coerced to JSON.
UpstreamContent ==
    /\ gpc = "fetching"
    /\ \E st \in {s \in Statuses : Ok(s)}, t \in Texts :
          /\ apiStatus' = st
          /\ generatedContent' = t
          /\ response' = Coerce(t).response
          /\ recovery' = Coerce(t).recovery
    /\ gpc' = "done"
    /\ UNCHANGED <<method, bodyRead, reqBody, calls, errorText>>
    /\ UNCHANGED cvars

GatewayNext ==
    \/ Preflight
    \/ BodyThrows
    \/ ValidationFails
    \/ CallModel
    \/ FetchRejects
    \/ UpstreamError
    \/ UpstreamMalformed
    \/ UpstreamContent

GatewaySpec == GatewayInit /\ [][GatewayNext]_vars

----------------------------------------------------------------------------
(* Properties of the gateway *)

Done == gpc = "done"

IsMissingFields400 ==
    /\ response.status = 400
    /\ response.body.kind = "error"
    /\ response.body.error = MissingFieldsMsg

\* The first opening brace and the last closing brace of a text (0: none),
\* and the block between them: what the greedy pattern is to match.
FirstOpen(t) ==
    IF \E i \in 1..Len(t) : t[i] = "{"
    THEN CHOOSE i \in 1..Len(t) : t[i] = "{" /\ \A j \in 1..(i - 1) : t[j] # "{"
    ELSE 0
LastClose(t) ==
    IF \E i \in 1..Len(t) : t[i] = "}"
    THEN CHOOSE i \in 1..Len(t) : t[i] = "}" /\ \A j \in (i + 1)..Len(t) : t[j] # "}"
    ELSE 0
HasBlock(t) == FirstOpen(t) # 0 /\ FirstOpen(t) < LastClose(t)
Block(t) == SubSeq(t, FirstOpen(t), LastClose(t))

\* The stripped and trimmed reply parses to an object with an ideas array.
DirectOk(t) ==
    /\ JSONparse(CleanContent(t)).ok
    /\ JSONparse(CleanContent(t)).value.kind = "object"
    /\ JSONparse(CleanContent(t)).value.ideas = "array"

\* The handler reached the coercion of the model's text.
Coerced == Done /\ recovery # "none"

\* C1: for a request that is no preflight and whose JSON body parses, the
\* answer is the 400 missing-fields error if and only if one of the five
\* required fields is absent or falsy, and a 400 answer made no model call.
C1_MissingFieldsIff400 ==
    (Done /\ method # "OPTIONS" /\ reqBody.kind \in {"null", "object"})
        => /\ IsMissingFields400 <=> MissingRequired(reqBody.fields)
           /\ response.status = 400 => calls = 0

\* C2: every answer to a request that is no preflight is either 200 with a
\* body whose ideas member is an array, or 400 or 500 with {error: string}.
C2_SuccessHasIdeasArray ==
    (Done /\ method # "OPTIONS")
        => \/ /\ response.status = 200
              /\ response.body.kind = "json"
              /\ response.body.value.kind = "object"
              /\ response.body.value.ideas = "array"
           \/ /\ response.status \in {400, 500}
              /\ response.body.kind = "error"

\* C3: every response carries the cross-origin headers, and a preflight is
\* answered 200 with an empty body, the request body unread and the model
\* endpoint not called.
C3_CorsOnEveryResponse ==
    Done => /\ corsHeaders \subseteq response.headers
            /\ method = "OPTIONS" =>
                  /\ response.status = 200
                  /\ response.body.kind = "empty"
                  /\ ~bodyRead
                  /\ calls = 0

\* C3, witness: a preflight has been answered.
C3_Witness == Done /\ method = "OPTIONS" /\ response.status = 200

\* C4: when the reply is not recoverable, a reply with no opening brace is
\* answered 500 "AI did not return valid JSON", and a reply whose block from
\* the first opening to the last closing brace does not parse is answered
\* 500 "Failed to parse AI response"; these two are distinct messages.
C4_TwoParseFailures ==
    Coerced =>
        /\ FirstOpen(generatedContent) = 0 =>
              /\ response.status = 500
              /\ response.body.kind = "error"
              /\ response.body.error = NoValidJsonMsg
        /\ ( /\ ~DirectOk(generatedContent)
             /\ HasBlock(generatedContent)
             /\ ~JSONparse(Block(generatedContent)).ok ) =>
              /\ response.status = 500
              /\ response.body.kind = "error"
              /\ response.body.error = FailedToParseMsg
        /\ NoValidJsonMsg # FailedToParseMsg

\* C4, witness: a reply with an unbalanced block was answered "Failed to
\* parse AI response".
C4_Witness ==
    /\ Coerced
    /\ HasBlock(generatedContent)
    /\ ~JSONparse(Block(generatedContent)).ok
    /\ response.body.error = FailedToParseMsg

\* C5: if the stripped and trimmed reply parses to an object with an ideas
\* array, the answer is 200 with that object and the extraction is not
\* attempted; the extraction is attempted only when that step failed, takes
\* the block from the first opening to the last closing brace of the
\* unstripped reply, and if the block parses the answer is 200 with it.
C5_RecoveryChain ==
    Coerced =>
        /\ DirectOk(generatedContent) =>
              /\ recovery = "direct"
              /\ response.status = 200
              /\ response.body.kind = "json"
              /\ response.body.value = JSONparse(CleanContent(generatedContent)).value
        /\ recovery = "extract" => ~DirectOk(generatedContent)
        /\ ( /\ ~DirectOk(generatedContent)
             /\ HasBlock(generatedContent)
             /\ JSONparse(Block(generatedContent)).ok ) =>
              /\ recovery = "extract"
              /\ response.status = 200
              /\ response.body.kind = "json"
              /\ response.body.value = JSONparse(Block(generatedContent)).value
        /\ ( ~DirectOk(generatedContent)
             /\ ~(HasBlock(generatedContent) /\ JSONparse(Block(generatedContent)).ok) )
              => response.status = 500

\* C5, witness: prose around an object was dropped by the extraction.
C5_Witness ==
    /\ Coerced
    /\ recovery = "extract"
    /\ generatedContent # <<>>
    /\ generatedContent[1] = "p"
    /\ response.status = 200
    /\ response.body.value.ideas = "array"

----------------------------------------------------------------------------
(* The client controller: the Index component and its handleGenerate *)

Invocations == 1..MaxInvocations

\* The ideas arrays a response may carry.
IdeaLists == {<<>>, <<"idea-a">>, <<"idea-b", "idea-c">>}

\* What response.json() can yield on the client: a rejection (the body is
\* not JSON), null, or an object with its error and ideas members ("" is an
\* absent or falsy error).
ClientBodies ==
    {[kind |-> "malformed", error |-> "", ideas |-> "absent", list |-> <<>>],
     [kind |-> "null", error |-> "", ideas |-> "absent", list |-> <<>>]}
    \cup {[kind |-> "object", error |-> e, ideas |-> k, list |-> <<>>] :
             e \in {"", "OpenAI API error: 429"}, k \in {"absent", "string"}}
    \cup {[kind |-> "object", error |-> "", ideas |-> "array", list |-> l] :
             l \in IdeaLists}

\* A mutant of LoadingOnStart: setIsLoading(true) is missing.
LoadingUnsetOnStart(cur) == cur

\* Line 36: setIsLoading(true).
LoadingOnStart(cur) == TRUE

\* A mutant of IdeasOnStart: setIdeas([]) is missing.
IdeasKeptOnStart(cur) == cur

\* Line 37: setIdeas([]).
IdeasOnStart(cur) == <<>>

\* A mutant of IdeasAfterFailure: the catch block clears the results.
IdeasClearedAfterFailure(cur) == <<>>

\* Lines 62-64: the catch block raises the toast and leaves ideas alone.
IdeasAfterFailure(cur) == cur

\* A mutant of LoadingAfter: setIsLoading(false) at the end of the try block
\* instead of in finally.
LoadingAfterTryOnly(cur, oc) == IF oc = "success" THEN FALSE ELSE cur

\* Lines 65-67: finally, setIsLoading(false).
LoadingAfter(cur, oc) == FALSE

\* Line 133: the invitational empty state is rendered.
EmptyStateRendered == ~isLoading /\ ideas = <<>>

InFlight(i) == cpc[i] \in {"fetching", "reading"}

Event(e, i) == [ev |-> e, id |-> i]

\* The place in hist of invocation i's start, and of its completion.
StartPos(i) == CHOOSE k \in 1..Len(hist) : hist[k] = Event("start", i)
DonePos(i) == CHOOSE k \in 1..Len(hist) : hist[k] = Event("done", i)

ClientInit ==
    /\ ClientIdle
    /\ gpc = "idle"
    /\ method = ""
    /\ bodyRead = FALSE
    /\ reqBody = [kind |-> "none", fields |-> NoFields]
    /\ calls = 0
    /\ apiStatus = 0
    /\ errorText = ""
    /\ generatedContent = <<>>
    /\ recovery = "none"
    /\ response = NoResponse

\* Lines 35-47: handleGenerate up to its first await. Invocations are
\* numbered in the order they start.
Generate(i) ==
    /\ cpc[i] = "idle"
    /\ \A j \in Invocations : j < i => cpc[j] # "idle"
    /\ isLoading' = LoadingOnStart(isLoading)
    /\ ideas' = IdeasOnStart(ideas)
    /\ cpc' = [cpc EXCEPT ![i] = "fetching"]
    /\ hist' = Append(hist, Event("start", i))
    /\ UNCHANGED <<respOk, outcome, delivered, toast>>
    /\ UNCHANGED gvars

\* The catch and finally blocks, lines 62-67, for the error message msg.
Fail(i, msg) ==
    /\ toast' = [toast EXCEPT ![i] = [kind |-> "error", message |-> msg]]
    /\ ideas' = IdeasAfterFailure(ideas)
    /\ isLoading' = LoadingAfter(isLoading, "failure")
    /\ outcome' = [outcome EXCEPT ![i] = "failure"]
    /\ cpc' = [cpc EXCEPT ![i] = "done"]
    /\ hist' = Append(hist, Event("done", i))
    /\ UNCHANGED <<respOk, delivered>>
    /\ UNCHANGED gvars

\* Line 40: fetch rejects (a network error).
ClientFetchRejects(i) ==
    /\ cpc[i] = "fetching"
    /\ Fail(i, "Failed to fetch")

\* Line 40: fetch resolves with a response; response.json() is awaited next.
ClientFetchResolves(i) ==
    /\ cpc[i] = "fetching"
    /\ \E ok \in BOOLEAN : respOk' = [respOk EXCEPT ![i] = ok]
    /\ cpc' = [cpc EXCEPT ![i] = "reading"]
    /\ UNCHANGED <<ideas, isLoading, outcome, delivered, toast, hist>>
    /\ UNCHANGED gvars

\* Lines 49-52: a status that is not ok; the server's message is preferred.
ErrorStatusRead(i) ==
    /\ cpc[i] = "reading"
    /\ ~respOk[i]
    /\ \E b \in ClientBodies :
          Fail(i, IF b.kind = "malformed" THEN "Unexpected token"
                  ELSE IF b.kind = "null" THEN "Cannot read properties of null"
                  ELSE IF b.error # "" THEN b.error
                  ELSE "Failed to generate ideas")

\* Lines 54-61: an ok status whose body has no ideas array.
InvalidBodyRead(i) ==
    /\ cpc[i] = "reading"
    /\ respOk[i]
    /\ \E b \in {x \in ClientBodies : x.ideas # "array"} :
          Fail(i, IF b.kind = "malformed" THEN "Unexpected token"
                  ELSE IF b.kind = "null" THEN "Cannot read properties of null"
                  ELSE "Invalid response format")

\* Lines 54-58 and 65-67: an ok status whose body has an ideas array.
IdeasRead(i) ==
    /\ cpc[i] = "reading"
    /\ respOk[i]
    /\ \E b \in {x \in ClientBodies : x.ideas = "array"} :
          /\ ideas' = b.list
          /\ delivered' = [delivered EXCEPT ![i] = b.list]
    /\ toast' = [toast EXCEPT ![i] = [kind |-> "success",
                                       message |-> "3 amazing ideas generated!"]]
    /\ isLoading' = LoadingAfter(isLoading, "success")
    /\ outcome' = [outcome EXCEPT ![i] = "success"]
    /\ cpc' = [cpc EXCEPT ![i] = "done"]
    /\ hist' = Append(hist, Event("done", i))
    /\ UNCHANGED respOk
    /\ UNCHANGED gvars

ClientNext ==
    \E i \in Invocations :
        \/ Generate(i)
        \/ ClientFetchRejects(i)
        \/ ClientFetchResolves(i)
        \/ ErrorStatusRead(i)
        \/ InvalidBodyRead(i)
        \/ IdeasRead(i)

ClientSpec == ClientInit /\ [][ClientNext]_vars

\* Every HTTP call settles: the fetch resolves or rejects, and the body of
\* a resolved response is read or fails to parse.
FairClientSpec ==
    /\ ClientSpec
    /\ \A i \in Invocations :
          /\ WF_vars(ClientFetchRejects(i) \/ ClientFetchResolves(i))
          /\ WF_vars(ErrorStatusRead(i) \/ InvalidBodyRead(i) \/ IdeasRead(i))

----------------------------------------------------------------------------
(* Properties of the client controller *)

Started(i) == cpc[i] # "idle"
Completed(i) == cpc[i] = "done"
NoneInFlight == \A i \in Invocations : ~InFlight(i)

\* Invocation i completes in this step, with a failure.
FailsNow(i) == outcome[i] = "none" /\ outcome'[i] = "failure"

\* Another invocation has completed with success since invocation i started.
SucceededSince(i) ==
    \E j \in Invocations :
        j # i /\ outcome[j] = "success" /\ DonePos(j) > StartPos(i)

\* Some invocation has completed since invocation i started.
CompletedSince(i) ==
    \E j \in Invocations : Completed(j) /\ DonePos(j) > StartPos(i)

\* Invocation b started while invocation a was in flight.
Overlap(a, b) ==
    /\ a < b
    /\ Started(b)
    /\ Completed(a) => DonePos(a) > StartPos(b)

\* Apart from a and b, nothing has run since b started.
OthersQuiet(a, b) ==
    \A k \in Invocations \ {a, b} :
        ~Started(k) \/ (Completed(k) /\ DonePos(k) < StartPos(b))

\* Of two completed invocations, the one that completed last, and the other.
LastOf(a, b) == IF DonePos(a) > DonePos(b) THEN a ELSE b
FirstOf(a, b) == IF DonePos(a) > DonePos(b) THEN b ELSE a

\* C7, as stated: whenever an invocation completes with a failure, an error
\* message is surfaced and the results list is empty at that moment, also
\* when invocations overlap.
C7_FailureLeavesResultsEmpty ==
    [][\A i \in Invocations :
          FailsNow(i) => /\ toast'[i].kind = "error"
                         /\ toast'[i].message # ""
                         /\ ideas' = <<>>]_vars

\* C7, amended: whenever an invocation completes with a failure, an error
\* message is surfaced, and the results list is empty at that moment
\* provided no other invocation has completed with success since this one
\* started.
C7_FailureSurfacesError ==
    [][\A i \in Invocations :
          FailsNow(i) => /\ toast'[i].kind = "error"
                         /\ toast'[i].message # ""
                         /\ ~SucceededSince(i)' => ideas' = <<>>]_vars

\* C7, witness: an invocation that overlapped another has failed, its error
\* is shown and the results list is empty.
C7_Witness ==
    \E a, b \in Invocations :
        /\ Overlap(a, b)
        /\ outcome[b] = "failure"
        /\ toast[b].kind = "error"
        /\ ideas = <<>>

\* C8: an invocation sets the loading flag and clears the results before it
\* issues its HTTP call; a completion of either outcome clears the loading
\* flag; the flag is false whenever no invocation is in flight; and, every
\* HTTP call settling, the flag is eventually false for good.
C8_LoadingClearedOnCompletion ==
    /\ [][\A i \in Invocations :
            /\ (cpc[i] = "idle" /\ cpc'[i] # "idle") =>
                  isLoading' /\ ideas' = <<>> /\ cpc'[i] = "fetching"
            /\ (cpc[i] # "done" /\ cpc'[i] = "done") => ~isLoading']_vars
    /\ [](NoneInFlight => ~isLoading)
    /\ <>[](NoneInFlight /\ ~isLoading)

\* C8, witness: one invocation has failed, another has succeeded, and the
\* loading flag is false.
C8_Witness ==
    /\ \E i \in Invocations : outcome[i] = "failure"
    /\ \E i \in Invocations : outcome[i] = "success"
    /\ NoneInFlight
    /\ ~isLoading

\* C9, as stated: after two overlapping invocations have completed, the
\* results list is that of the one that completed last: its ideas if it
\* succeeded, empty if it failed.
C9_LastResponseWins ==
    \A a, b \in Invocations :
        (Overlap(a, b) /\ Completed(a) /\ Completed(b) /\ OthersQuiet(a, b)) =>
            ideas = IF outcome[LastOf(a, b)] = "success"
                    THEN delivered[LastOf(a, b)]
                    ELSE <<>>

\* C9, amended: after two overlapping invocations have completed, the
\* results list is the last one written: the ideas of the invocation that
\* completed last if it succeeded; if it failed, the ideas of the other one
\* if that succeeded, and empty if both failed.
C9_LastWriteWins ==
    \A a, b \in Invocations :
        (Overlap(a, b) /\ Completed(a) /\ Completed(b) /\ OthersQuiet(a, b)) =>
            ideas = IF outcome[LastOf(a, b)] = "success"
                    THEN delivered[LastOf(a, b)]
                    ELSE IF outcome[FirstOf(a, b)] = "success"
                    THEN delivered[FirstOf(a, b)]
                    ELSE <<>>

\* C9, witness: of two overlapping invocations the first to complete
\* succeeded with ideas and the last to complete failed.
C9_Witness ==
    \E a, b \in Invocations :
        /\ Overlap(a, b) /\ Completed(a) /\ Completed(b) /\ OthersQuiet(a, b)
        /\ outcome[LastOf(a, b)] = "failure"
        /\ outcome[FirstOf(a, b)] = "success"
        /\ delivered[FirstOf(a, b)] # <<>>

\* C10, as stated: the loading flag is true in every state in which an
\* invocation is in flight, so that the empty state is not rendered then.
C10_LoadingWhileInFlight ==
    (\E i \in Invocations : InFlight(i)) => (isLoading /\ ~EmptyStateRendered)

\* C10, amended: the loading flag is true, and the empty state is not
\* rendered, in every state in which an invocation is in flight and no
\* invocation has completed since it started.
C10_LoadingUntilACompletion ==
    \A i \in Invocations :
        (InFlight(i) /\ ~CompletedSince(i)) => (isLoading /\ ~EmptyStateRendered)

\* C10, witness: two invocations are in flight and the loading flag is true.
C10_Witness ==
    /\ \E a, b \in Invocations : a # b /\ InFlight(a) /\ InFlight(b)
    /\ isLoading

============================================================================
